---- MODULE Spec2Model ----
(***************************************************************************)
(* Model of the UniFi controller session client                            *)
(* (src/src/unifi_mcp/unifi_client.py).  One UniFiClient instance is the   *)
(* state; every public coroutine of the class is one action.  The httpx    *)
(* connection and the controller are the environment: each call on the     *)
(* connection draws its outcome (a response with a status and a body, or   *)
(* a transport exception) from a small set.                                *)
(***************************************************************************)
EXTENDS Integers, Sequences, FiniteSets, TLC

\* Bounds of the model.
MaxCalls == 3
MaxData == 2
MaxOps == 2

NoExc == "none"
None == "None"

(***************************************************************************)
(* Python values                                                           *)
(***************************************************************************)
\* {} : the dict with no keys
EmptyDict == [k \in {} |-> k]

\* dict.get(k, default)
_get(d, k, default) == IF k \in DOMAIN d THEN d[k] ELSE default

\* Direct base class of every exception class the client raises or lets
\* through; "Exception" is the root.
Base(cls) ==
    CASE cls = "UniFiError" -> "Exception"
      [] cls = "UniFiAuthenticationError" -> "UniFiError"
      [] cls = "UniFiConnectionError" -> "UniFiError"
      [] cls = "RuntimeError" -> "Exception"
      [] cls = "JSONDecodeError" -> "Exception"
      [] cls = "HTTPError" -> "Exception"
      [] cls = "HTTPStatusError" -> "HTTPError"
      [] cls = "TransportError" -> "HTTPError"
      [] cls = "ConnectError" -> "TransportError"
      [] cls = "ReadTimeout" -> "TransportError"
      [] OTHER -> "Exception"

RECURSIVE issubclass(_, _)
\* issubclass(cls, of): the test an "except of" clause makes
issubclass(cls, of) ==
    IF cls = of THEN TRUE
    ELSE IF cls = "Exception" \/ cls = NoExc THEN FALSE
    ELSE issubclass(Base(cls), of)

(***************************************************************************)
(* The environment: controller responses and transport failures            *)
(***************************************************************************)
Statuses == {200, 401, 500}
TransportExcs == {"ConnectError", "ReadTimeout"}

\* payload lists of 0..MaxData records, in a recognisable order
Payloads == {[i \in 1..n |-> [name |-> i]] : n \in 0..MaxData}

Metas ==
    {EmptyDict, [rc |-> "ok"], [rc |-> "error"],
     [rc |-> "error", msg |-> "api.err.LoginRequired"], [rc |-> "warning"]}

\* JSON documents the controller may answer with
Docs ==
    {[meta |-> m, data |-> p] : m \in Metas, p \in Payloads}
      \cup {[meta |-> m] : m \in Metas}
      \cup {[data |-> p] : p \in Payloads}
      \cup {EmptyDict}

\* What one call on an open connection can produce: a response (status,
\* body that parses as JSON or not) or a transport exception.
Outcomes ==
    {[exc |-> NoExc, status |-> s, is_json |-> TRUE, doc |-> d] :
        s \in Statuses, d \in Docs}
      \cup {[exc |-> NoExc, status |-> s, is_json |-> FALSE, doc |-> EmptyDict] :
              s \in Statuses}
      \cup {[exc |-> e, status |-> 0, is_json |-> FALSE, doc |-> EmptyDict] :
              e \in TransportExcs}

\* login and logout never read the body
BodylessOutcomes == {o \in Outcomes : o.doc = EmptyDict /\ ~o.is_json}

\* httpx.AsyncClient.post / .request on the connection of self: a closed
\* connection refuses the call, an open one carries it (wire records it)
send(self, w, req, out) ==
    IF self._client = "closed"
    THEN [exc |-> "RuntimeError", status |-> 0, wire |-> w]
    ELSE [exc |-> out.exc, status |-> out.status, wire |-> Append(w, req)]

\* Response.raise_for_status
raise_for_status(status) ==
    IF status \in 200..299 THEN NoExc ELSE "HTTPStatusError"

(***************************************************************************)
(* UniFiClient                                                             *)
(***************************************************************************)
\* results of a method call
Return(self, w, value) ==
    [self |-> self, wire |-> w, raised |-> NoExc, msg |-> <<>>, ret |-> value]

Raise(self, w, cls, message) ==
    [self |-> self, wire |-> w, raised |-> cls, msg |-> message, ret |-> <<>>]

_api_prefix(self) ==
    IF self.is_unifi_os THEN <<"proxy", "network">> ELSE <<>>

\* an _api_url that prefixes site-scoped paths only
_api_url_prefix_site_scoped(self, endpoint) ==
    LET path == [i \in 1..Len(endpoint) |->
                    IF endpoint[i] = "{site}" THEN self.site ELSE endpoint[i]]
    IN  IF \E i \in 1..Len(endpoint) : endpoint[i] = "{site}"
        THEN _api_prefix(self) \o path
        ELSE path

\* paths are sequences of segments; "{site}" is the placeholder segment
_api_url(self, endpoint) ==
    _api_prefix(self) \o
        [i \in 1..Len(endpoint) |->
            IF endpoint[i] = "{site}" THEN self.site ELSE endpoint[i]]

\* the except clauses of login (lines 114-119): exc was raised in the try
\* block by a call that answered with status
login_except_swapped(self, w, exc, status) ==
    IF issubclass(exc, "HTTPStatusError")
    THEN IF status = 401
         THEN Raise(self, w, "UniFiError", <<"Login failed: ", exc>>)
         ELSE Raise(self, w, "UniFiAuthenticationError", <<"Invalid credentials">>)
    ELSE IF issubclass(exc, "ConnectError")
    THEN Raise(self, w, "UniFiConnectionError",
               <<"Failed to connect to ", self.host>>)
    ELSE Raise(self, w, exc, <<>>)

login_except(self, w, exc, status) ==
    IF issubclass(exc, "HTTPStatusError")
    THEN IF status = 401
         THEN Raise(self, w, "UniFiAuthenticationError", <<"Invalid credentials">>)
         ELSE Raise(self, w, "UniFiError", <<"Login failed: ", exc>>)
    ELSE IF issubclass(exc, "ConnectError")
    THEN Raise(self, w, "UniFiConnectionError",
               <<"Failed to connect to ", self.host>>)
    ELSE Raise(self, w, exc, <<>>)

\* a login request whose path goes through _api_url like every other path
login_request_prefixed(self) ==
    [method |-> "POST",
     url |-> _api_url(self, IF self.is_unifi_os
                            THEN <<"api", "auth", "login">>
                            ELSE <<"api", "login">>),
     json |-> [username |-> self.username, password |-> self.password]]

\* the login request: endpoint by controller type, credentials as body
login_request(self) ==
    [method |-> "POST",
     url |-> IF self.is_unifi_os
             THEN <<"api", "auth", "login">>
             ELSE <<"api", "login">>,
     json |-> [username |-> self.username, password |-> self.password]]

\* a login that tries a second time when the first POST fails
login_retrying(self, w, out) ==
    IF self._client = None
    THEN Raise(self, w, "RuntimeError", <<"Client not initialized">>)
    ELSE
      LET r1 == send(self, w, login_request(self), out)
          exc1 == IF r1.exc # NoExc THEN r1.exc ELSE raise_for_status(r1.status)
          r == IF exc1 = NoExc THEN r1
               ELSE send(self, r1.wire, login_request(self), out)
          exc == IF r.exc # NoExc THEN r.exc ELSE raise_for_status(r.status)
      IN  IF exc = NoExc
          THEN Return([self EXCEPT !._logged_in = TRUE], r.wire, <<>>)
          ELSE login_except(self, r.wire, exc, r.status)

\* a login that drops the authenticated flag when it fails
login_resetting(self, w, out) ==
    IF self._client = None
    THEN Raise(self, w, "RuntimeError", <<"Client not initialized">>)
    ELSE
      LET r == send(self, w, login_request(self), out)
          exc == IF r.exc # NoExc THEN r.exc ELSE raise_for_status(r.status)
      IN  IF exc = NoExc
          THEN Return([self EXCEPT !._logged_in = TRUE], r.wire, <<>>)
          ELSE login_except([self EXCEPT !._logged_in = FALSE], r.wire, exc, r.status)

login(self, w, out) ==
    IF self._client = None
    THEN Raise(self, w, "RuntimeError", <<"Client not initialized">>)
    ELSE
      LET r == send(self, w, login_request(self), out)
          exc == IF r.exc # NoExc THEN r.exc ELSE raise_for_status(r.status)
      IN  IF exc = NoExc
          THEN Return([self EXCEPT !._logged_in = TRUE], r.wire, <<>>)
          ELSE login_except(self, r.wire, exc, r.status)

logout_request == [method |-> "POST", url |-> <<"api", "logout">>, json |-> EmptyDict]

\* a logout that ignores connection failures only
logout_narrow_except(self, w, out) ==
    IF self._client = None \/ ~self._logged_in
    THEN Return(self, w, <<>>)
    ELSE
      LET r == send(self, w, logout_request, out)
      IN  IF r.exc = NoExc
          THEN Return([self EXCEPT !._logged_in = FALSE], r.wire, <<>>)
          ELSE IF issubclass(r.exc, "ConnectError")
          THEN Return(self, r.wire, <<>>)
          ELSE Raise(self, r.wire, r.exc, <<>>)

logout(self, w, out) ==
    IF self._client = None \/ ~self._logged_in
    THEN Return(self, w, <<>>)
    ELSE
      LET r == send(self, w, logout_request, out)
      IN  IF r.exc = NoExc
          THEN Return([self EXCEPT !._logged_in = FALSE], r.wire, <<>>)
          ELSE IF issubclass(r.exc, "HTTPError")
          THEN Return(self, r.wire, <<>>)
          ELSE Raise(self, r.wire, r.exc, <<>>)

\* a scope entry that swallows the failure of its login
__aenter__swallowing(self, w, out) ==
    LET r == login([self EXCEPT !._client = "open"], w, out)
    IN  Return(r.self, r.wire, <<>>)

__aenter__(self, w, out) ==
    login([self EXCEPT !._client = "open"], w, out)

\* a scope exit that closes the connection before it logs out
__aexit__close_first(self, w, out) ==
    IF self._client # None
    THEN logout([self EXCEPT !._client = "closed"], w, out)
    ELSE Return(self, w, <<>>)

\* a scope exit that closes the connection only once logged out
__aexit__close_if_logged_out(self, w, out) ==
    IF self._client # None
    THEN LET r == logout(self, w, out)
         IN  IF r.raised # NoExc
             THEN r
             ELSE IF r.self._logged_in
             THEN Return(r.self, r.wire, <<>>)
             ELSE Return([r.self EXCEPT !._client = "closed"], r.wire, <<>>)
    ELSE Return(self, w, <<>>)

__aexit__(self, w, out) ==
    IF self._client # None
    THEN LET r == logout(self, w, out)
         IN  IF r.raised # NoExc
             THEN r
             ELSE Return([r.self EXCEPT !._client = "closed"], r.wire, <<>>)
    ELSE Return(self, w, <<>>)

\* an envelope check that drops the server's message
envelope_generic_msg(self, w, out) ==
    IF ~out.is_json
    THEN Raise(self, w, "JSONDecodeError", <<>>)
    ELSE LET meta == _get(out.doc, "meta", EmptyDict)
         IN  IF _get(meta, "rc", None) = "error"
             THEN Raise(self, w, "UniFiError", <<"Unknown API error">>)
             ELSE Return(self, w, _get(out.doc, "data", <<>>))

\* an envelope check that accepts nothing but rc = "ok"
envelope_ok_only(self, w, out) ==
    IF ~out.is_json
    THEN Raise(self, w, "JSONDecodeError", <<>>)
    ELSE LET meta == _get(out.doc, "meta", EmptyDict)
         IN  IF _get(meta, "rc", None) # "ok"
             THEN Raise(self, w, "UniFiError",
                        <<_get(meta, "msg", "Unknown API error")>>)
             ELSE Return(self, w, _get(out.doc, "data", <<>>))

\* an envelope check that reads data["data"] without a default
envelope_data_required(self, w, out) ==
    IF ~out.is_json
    THEN Raise(self, w, "JSONDecodeError", <<>>)
    ELSE LET meta == _get(out.doc, "meta", EmptyDict)
         IN  IF _get(meta, "rc", None) = "error"
             THEN Raise(self, w, "UniFiError",
                        <<_get(meta, "msg", "Unknown API error")>>)
             ELSE IF "data" \in DOMAIN out.doc
             THEN Return(self, w, out.doc.data)
             ELSE Raise(self, w, "KeyError", <<"data">>)

\* lines 157-164 of _request: parse the body of a 2xx response, check the
\* envelope, return the payload
envelope(self, w, out) ==
    IF ~out.is_json
    THEN Raise(self, w, "JSONDecodeError", <<>>)
    ELSE LET meta == _get(out.doc, "meta", EmptyDict)
         IN  IF _get(meta, "rc", None) = "error"
             THEN Raise(self, w, "UniFiError",
                        <<_get(meta, "msg", "Unknown API error")>>)
             ELSE Return(self, w, _get(out.doc, "data", <<>>))

\* a _request that makes the call a second time when the first one fails
_request_try_retrying(self, w, method, endpoint, json, out) ==
    LET url == _api_url(self, endpoint)
        q == [method |-> method, url |-> url, json |-> json]
        r1 == send(self, w, q, out)
        exc1 == IF r1.exc # NoExc THEN r1.exc ELSE raise_for_status(r1.status)
        r == IF exc1 = NoExc THEN r1 ELSE send(self, r1.wire, q, out)
        exc == IF r.exc # NoExc THEN r.exc ELSE raise_for_status(r.status)
    IN  IF exc = NoExc
        THEN envelope(self, r.wire, out)
        ELSE IF issubclass(exc, "HTTPStatusError")
        THEN Raise(self, r.wire, "UniFiError", <<"Request failed: ", exc>>)
        ELSE Raise(self, r.wire, exc, <<>>)

\* a _request that inspects the envelope before the HTTP status
_request_try_envelope_first(self, w, method, endpoint, json, out) ==
    LET url == _api_url(self, endpoint)
        r == send(self, w, [method |-> method, url |-> url, json |-> json], out)
        e == envelope(self, r.wire, out)
    IN  IF r.exc # NoExc
        THEN Raise(self, r.wire, r.exc, <<>>)
        ELSE IF e.raised # NoExc
        THEN e
        ELSE IF raise_for_status(r.status) # NoExc
        THEN Raise(self, r.wire, "UniFiError",
                   <<"Request failed: ", raise_for_status(r.status)>>)
        ELSE e

\* a _request that takes a non-2xx answer for the end of the session
_request_try_invalidating(self, w, method, endpoint, json, out) ==
    LET url == _api_url(self, endpoint)
        r == send(self, w, [method |-> method, url |-> url, json |-> json], out)
        exc == IF r.exc # NoExc THEN r.exc ELSE raise_for_status(r.status)
    IN  IF exc = NoExc
        THEN envelope(self, r.wire, out)
        ELSE IF issubclass(exc, "HTTPStatusError")
        THEN Raise([self EXCEPT !._logged_in = FALSE], r.wire, "UniFiError",
                   <<"Request failed: ", exc>>)
        ELSE Raise(self, r.wire, exc, <<>>)

\* lines 153-166 of _request: build the URL, make the call, map the result
_request_try(self, w, method, endpoint, json, out) ==
    LET url == _api_url(self, endpoint)
        r == send(self, w, [method |-> method, url |-> url, json |-> json], out)
        exc == IF r.exc # NoExc THEN r.exc ELSE raise_for_status(r.status)
    IN  IF exc = NoExc
        THEN envelope(self, r.wire, out)
        ELSE IF issubclass(exc, "HTTPStatusError")
        THEN Raise(self, r.wire, "UniFiError", <<"Request failed: ", exc>>)
        ELSE Raise(self, r.wire, exc, <<>>)

\* a _request without the check of the connection handle
_request_unguarded(self, w, method, endpoint, json, out) ==
    _request_try(self, w, method, endpoint, json, out)

_request(self, w, method, endpoint, json, out) ==
    IF self._client = None
    THEN Raise(self, w, "RuntimeError", <<"Client not initialized">>)
    ELSE _request_try(self, w, method, endpoint, json, out)

(***************************************************************************)
(* Typed operations                                                        *)
(***************************************************************************)
\* A str whose characters the code inspects is a sequence of one-character
\* strings; Str gives it as one string.
RECURSIVE Str(_)
Str(s) == IF s = <<>> THEN "" ELSE s[1] \o Str(Tail(s))

\* str.lower, character by character
lower_char(c) ==
    CASE c = "A" -> "a" [] c = "B" -> "b" [] c = "C" -> "c" [] c = "D" -> "d"
      [] c = "E" -> "e" [] c = "F" -> "f" [] c = "R" -> "r" [] c = "S" -> "s"
      [] c = "T" -> "t" [] c = "U" -> "u" [] c = "L" -> "l"
      [] OTHER -> c

\* a lower() that leaves the string as it is
lower_identity(s) == s

lower(s) == [i \in 1..Len(s) |-> lower_char(s[i])]

\* json=None: the call carries no body
NoBody == EmptyDict

get_devices(self, w, out) ==
    _request(self, w, "GET", <<"api", "s", "{site}", "stat", "device">>, NoBody, out)

\* a lookup that takes the last element of the payload
get_device_last(self, w, mac, out) ==
    LET r == _request(self, w, "GET",
                      <<"api", "s", "{site}", "stat", "device", Str(mac)>>,
                      NoBody, out)
    IN  IF r.raised # NoExc THEN r
        ELSE Return(r.self, r.wire,
                    IF r.ret # <<>> THEN r.ret[Len(r.ret)] ELSE None)

get_device(self, w, mac, out) ==
    LET r == _request(self, w, "GET",
                      <<"api", "s", "{site}", "stat", "device", Str(mac)>>,
                      NoBody, out)
    IN  IF r.raised # NoExc THEN r
        ELSE Return(r.self, r.wire, IF r.ret # <<>> THEN r.ret[1] ELSE None)

restart_device(self, w, mac, out) ==
    LET r == _request(self, w, "POST", <<"api", "s", "{site}", "cmd", "devmgr">>,
                      [cmd |-> "restart", mac |-> Str(lower(mac))], out)
    IN  IF r.raised # NoExc THEN r ELSE Return(r.self, r.wire, TRUE)

get_clients(self, w, out) ==
    _request(self, w, "GET", <<"api", "s", "{site}", "stat", "sta">>, NoBody, out)

get_all_clients(self, w, out) ==
    _request(self, w, "GET", <<"api", "s", "{site}", "stat", "alluser">>, NoBody, out)

get_client(self, w, mac, out) ==
    LET r == _request(self, w, "GET",
                      <<"api", "s", "{site}", "stat", "user", Str(mac)>>,
                      NoBody, out)
    IN  IF r.raised # NoExc THEN r
        ELSE Return(r.self, r.wire, IF r.ret # <<>> THEN r.ret[1] ELSE None)

block_client(self, w, mac, out) ==
    LET r == _request(self, w, "POST", <<"api", "s", "{site}", "cmd", "stamgr">>,
                      [cmd |-> "block-sta", mac |-> Str(lower(mac))], out)
    IN  IF r.raised # NoExc THEN r ELSE Return(r.self, r.wire, TRUE)

\* an unblock that sends the block command
unblock_client_blocks(self, w, mac, out) ==
    LET r == _request(self, w, "POST", <<"api", "s", "{site}", "cmd", "stamgr">>,
                      [cmd |-> "block-sta", mac |-> Str(lower(mac))], out)
    IN  IF r.raised # NoExc THEN r ELSE Return(r.self, r.wire, TRUE)

unblock_client(self, w, mac, out) ==
    LET r == _request(self, w, "POST", <<"api", "s", "{site}", "cmd", "stamgr">>,
                      [cmd |-> "unblock-sta", mac |-> Str(lower(mac))], out)
    IN  IF r.raised # NoExc THEN r ELSE Return(r.self, r.wire, TRUE)

disconnect_client(self, w, mac, out) ==
    LET r == _request(self, w, "POST", <<"api", "s", "{site}", "cmd", "stamgr">>,
                      [cmd |-> "kick-sta", mac |-> Str(lower(mac))], out)
    IN  IF r.raised # NoExc THEN r ELSE Return(r.self, r.wire, TRUE)

get_sites(self, w, out) ==
    _request(self, w, "GET", <<"api", "self", "sites">>, NoBody, out)

get_site_health(self, w, out) ==
    _request(self, w, "GET", <<"api", "s", "{site}", "stat", "health">>, NoBody, out)

get_networks(self, w, out) ==
    _request(self, w, "GET", <<"api", "s", "{site}", "rest", "networkconf">>,
             NoBody, out)

get_dpi_stats(self, w, out) ==
    _request(self, w, "GET", <<"api", "s", "{site}", "stat", "dpi">>, NoBody, out)

\* the typed operations, by name
ListOps ==
    {"get_devices", "get_clients", "get_all_clients", "get_sites",
     "get_site_health", "get_networks", "get_dpi_stats"}

LookupOps == {"get_device", "get_client"}

CommandOps ==
    {"restart_device", "block_client", "unblock_client", "disconnect_client"}

\* client.<op>(...) : the call of a typed operation by its name
call_method(self, w, op, mac, out) ==
    CASE op = "get_devices" -> get_devices(self, w, out)
      [] op = "get_device" -> get_device(self, w, mac, out)
      [] op = "restart_device" -> restart_device(self, w, mac, out)
      [] op = "get_clients" -> get_clients(self, w, out)
      [] op = "get_all_clients" -> get_all_clients(self, w, out)
      [] op = "get_client" -> get_client(self, w, mac, out)
      [] op = "block_client" -> block_client(self, w, mac, out)
      [] op = "unblock_client" -> unblock_client(self, w, mac, out)
      [] op = "disconnect_client" -> disconnect_client(self, w, mac, out)
      [] op = "get_sites" -> get_sites(self, w, out)
      [] op = "get_site_health" -> get_site_health(self, w, out)
      [] op = "get_networks" -> get_networks(self, w, out)
      [] op = "get_dpi_stats" -> get_dpi_stats(self, w, out)

(***************************************************************************)
(* The state machine: one instance, called by its user in any order        *)
(***************************************************************************)
VARIABLES
    self,   \* the UniFiClient instance: configuration, _client, _logged_in
    wire,   \* the HTTP calls carried by the instance's connections, in order
    last,   \* the last call made on the instance and how it ended
    calls   \* number of calls made so far

vars == <<self, wire, last, calls>>

Sites == {"default", "mysite"}

\* the (method, endpoint template, body) triples the typed operations use
Requests ==
    {[method |-> "GET", endpoint |-> <<"api", "s", "{site}", "stat", "device">>,
      json |-> EmptyDict],
     [method |-> "GET", endpoint |-> <<"api", "self", "sites">>,
      json |-> EmptyDict],
     [method |-> "POST", endpoint |-> <<"api", "s", "{site}", "cmd", "stamgr">>,
      json |-> [cmd |-> "block-sta", mac |-> "aa:bb:cc:dd:ee:ff"]]}

NoOutcome == [exc |-> NoExc, status |-> 0, is_json |-> FALSE, doc |-> EmptyDict]

\* UniFiClient.__init__ with explicit arguments
Init ==
    /\ self \in {[host |-> "https://unifi.local", username |-> "admin",
                  password |-> "pass", site |-> s, verify_ssl |-> TRUE,
                  is_unifi_os |-> os, _client |-> None, _logged_in |-> FALSE] :
                    s \in Sites, os \in BOOLEAN}
    /\ wire = <<>>
    /\ last = [op |-> "__init__", pre |-> self, out |-> NoOutcome,
               raised |-> NoExc, msg |-> <<>>, ret |-> <<>>, nsent |-> 0]
    /\ calls = 0

\* record the call op, made in the current state with outcome out, ending as r
Record(op, out, r) ==
    /\ self' = r.self
    /\ wire' = r.wire
    /\ last' = [op |-> op, pre |-> self, out |-> out, raised |-> r.raised,
                msg |-> r.msg, ret |-> r.ret, nsent |-> Len(r.wire) - Len(wire)]
    /\ calls' = calls + 1

AEnter ==
    /\ calls < MaxCalls
    /\ \E out \in BodylessOutcomes :
          Record("__aenter__", out, __aenter__(self, wire, out))

AExit ==
    /\ calls < MaxCalls
    /\ \E out \in BodylessOutcomes :
          Record("__aexit__", out, __aexit__(self, wire, out))

Login ==
    /\ calls < MaxCalls
    /\ \E out \in BodylessOutcomes :
          Record("login", out, login(self, wire, out))

Logout ==
    /\ calls < MaxCalls
    /\ \E out \in BodylessOutcomes :
          Record("logout", out, logout(self, wire, out))

Request ==
    /\ calls < MaxCalls
    /\ \E q \in Requests, out \in Outcomes :
          Record("_request", out,
                 _request(self, wire, q.method, q.endpoint, q.json, out))

Next == AEnter \/ AExit \/ Login \/ Logout \/ Request

Spec == Init /\ [][Next]_vars

TypeOK ==
    /\ self._client \in {None, "open", "closed"}
    /\ self._logged_in \in BOOLEAN
    /\ calls \in 0..MaxCalls
    /\ Len(wire) <= calls

(***************************************************************************)
(* The typed operations on one instance: scope entry, then operations      *)
(***************************************************************************)
\* MAC addresses as the caller may pass them (any casing, abbreviated ones)
Macs ==
    {<<"A", "A", ":", "B", "B", ":", "C", "C", ":", "D", "D", ":",
       "E", "E", ":", "F", "F">>,
     <<"a", "A", ":", "0", "f">>,
     <<"A", "a", ":", "0", "F">>,
     <<"a", "a", ":", "0", "f">>}

\* the answers an operation is tried with: ok and error envelopes with and
\* without data, a non-2xx answer, a connection failure
OpOutcomes ==
    {o \in Outcomes :
        \/ o.exc = "ConnectError"
        \/ o.exc = NoExc /\ o.status = 500 /\ ~o.is_json
        \/ /\ o.exc = NoExc /\ o.status = 200 /\ o.is_json
           /\ "meta" \in DOMAIN o.doc
           /\ o.doc.meta \in {[rc |-> "ok"], [rc |-> "error"]}}

\* record the typed operation op(mac), made in the current state
RecordOp(op, mac, out, r) ==
    /\ self' = r.self
    /\ wire' = r.wire
    /\ last' = [op |-> op, mac |-> mac, pre |-> self, out |-> out,
                raised |-> r.raised, msg |-> r.msg, ret |-> r.ret,
                nsent |-> Len(r.wire) - Len(wire)]
    /\ calls' = calls + 1

OpsEnter ==
    /\ calls < MaxOps
    /\ \E out \in BodylessOutcomes :
          Record("__aenter__", out, __aenter__(self, wire, out))

ListOperation ==
    /\ calls < MaxOps
    /\ \E op \in ListOps, out \in OpOutcomes :
          RecordOp(op, <<>>, out, call_method(self, wire, op, <<>>, out))

MacOperation ==
    /\ calls < MaxOps
    /\ \E op \in LookupOps \cup CommandOps, mac \in Macs, out \in OpOutcomes :
          RecordOp(op, mac, out, call_method(self, wire, op, mac, out))

NextOps == OpsEnter \/ ListOperation \/ MacOperation

SpecOps == Init /\ [][NextOps]_vars

(***************************************************************************)
(* Construction: UniFiClient(...) under a process environment, then scope  *)
(* entry                                                                   *)
(***************************************************************************)
\* An argument left out (None) is the empty tuple, a passed argument v the
\* tuple <<v>>.
Omitted == <<>>

\* bool(x) of an optional str argument: None and "" are false
truthy(arg) == arg # Omitted /\ arg[1] # ""

\* the value of "true", a str the code lower-cases
true_str == <<"t", "r", "u", "e">>

false_str == <<"f", "a", "l", "s", "e">>

__init__(args, environ) ==
    [host |-> IF truthy(args.host) THEN args.host[1]
              ELSE _get(environ, "UNIFI_HOST", ""),
     username |-> IF truthy(args.username) THEN args.username[1]
                  ELSE _get(environ, "UNIFI_USERNAME", ""),
     password |-> IF truthy(args.password) THEN args.password[1]
                  ELSE _get(environ, "UNIFI_PASSWORD", ""),
     site |-> IF truthy(args.site) THEN args.site[1]
              ELSE _get(environ, "UNIFI_SITE", "default"),
     verify_ssl |-> IF args.verify_ssl # Omitted THEN args.verify_ssl[1]
                    ELSE Str(lower(_get(environ, "UNIFI_VERIFY_SSL", true_str)))
                            = "true",
     is_unifi_os |-> IF args.is_unifi_os # Omitted THEN args.is_unifi_os[1]
                     ELSE Str(lower(_get(environ, "UNIFI_IS_UNIFI_OS", false_str)))
                            = "true",
     _client |-> None,
     _logged_in |-> FALSE]

\* the arguments a caller may pass: left out, empty, or a value
ArgSets ==
    [host : {Omitted, <<"">>, <<"https://unifi.local">>},
     username : {Omitted, <<"admin">>},
     password : {Omitted, <<"pass">>},
     site : {Omitted, <<"">>, <<"mysite">>},
     verify_ssl : {Omitted, <<TRUE>>, <<FALSE>>},
     is_unifi_os : {Omitted, <<TRUE>>, <<FALSE>>}]

\* the environment variables, each unset (Omitted) or set to a value
EnvSets ==
    [UNIFI_HOST : {Omitted, <<"https://env.unifi.local">>},
     UNIFI_USERNAME : {Omitted, <<"envuser">>},
     UNIFI_PASSWORD : {Omitted, <<"envpass">>},
     UNIFI_SITE : {Omitted, <<"envsite">>},
     UNIFI_VERIFY_SSL : {Omitted, <<false_str>>, <<<<"T", "r", "u", "e">>>>},
     UNIFI_IS_UNIFI_OS : {Omitted, <<true_str>>, <<<<"n", "o">>>>}]

\* os.environ: the dict of the variables that are set
Environ(e) == [k \in {v \in DOMAIN e : e[v] # Omitted} |-> e[k][1]]

InitConfig ==
    /\ self = [_client |-> None, _logged_in |-> FALSE]
    /\ wire = <<>>
    /\ last = [op |-> "start"]
    /\ calls = 0

Construct ==
    /\ last.op = "start"
    /\ \E args \in ArgSets, e \in EnvSets :
          /\ self' = __init__(args, Environ(e))
          /\ last' = [op |-> "__init__", args |-> args, environ |-> Environ(e)]
    /\ wire' = wire
    /\ calls' = calls + 1

ConfigEnter ==
    /\ last.op = "__init__"
    /\ \E out \in BodylessOutcomes :
          Record("__aenter__", out, __aenter__(self, wire, out))

NextConfig == Construct \/ ConfigEnter

SpecConfig == InitConfig /\ [][NextConfig]_vars

(***************************************************************************)
(* The tool dispatch layer (src/src/unifi_mcp/server.py)                   *)
(***************************************************************************)
\* A text is the sequence of the string parts it is put together from (the
\* literal pieces and the interpolated values of an f-string, the lines of a
\* "\n".join).

\* a payload element that is not a JSON object (here a str)
NotAnObject == [__class__ |-> "str"]

isdict(x) == "__class__" \notin DOMAIN x

\* f"{item.get(k, default)}"
field(item, k, default) == IF k \in DOMAIN item THEN ToString(item[k]) ELSE default

\* the result of a formatting helper: the text, or the exception raised
Formatted(text) == [raised |-> NoExc, msg |-> <<>>, text |-> text]

\* calling .get on an element that has no such method
NoGet == [raised |-> "AttributeError",
          msg |-> <<"'str' object has no attribute 'get'">>, text |-> <<>>]

RECURSIVE concat(_)
\* the lines of all elements, in order
concat(seqs) == IF seqs = <<>> THEN <<>> ELSE seqs[1] \o concat(Tail(seqs))

\* the loop over the elements: the first element that is not a dict raises
\* (lines[i] holds the lines of items[i])
for_each(items, header, lines) ==
    IF \E i \in 1..Len(items) : ~isdict(items[i])
    THEN NoGet
    ELSE Formatted(header \o concat(lines))

Units == <<"B", "KB", "MB", "GB", "TB">>

RECURSIVE format_unit(_, _, _)
\* bytes_val / d with one decimal (half to even), in the first unit where it
\* is below 1024
format_unit(bytes_val, d, u) ==
    IF u <= Len(Units) /\ bytes_val >= 1024 * d
    THEN format_unit(bytes_val, 1024 * d, u + 1)
    ELSE LET q == (10 * bytes_val) \div d
             rem == (10 * bytes_val) % d
             tenths == IF 2 * rem > d \/ (2 * rem = d /\ q % 2 = 1)
                       THEN q + 1 ELSE q
         IN  <<ToString(tenths \div 10), ".", ToString(tenths % 10), " ",
               IF u <= Len(Units) THEN Units[u] ELSE "PB">>

format_bytes(bytes_val) == format_unit(bytes_val, 1, 1)

device_lines(device) ==
    <<"- ", field(device, "name", "Unknown"),
      "  MAC: ", field(device, "mac", "Unknown"),
      "  Model: ", field(device, "model", "Unknown"),
      " (", field(device, "type", "Unknown"), ")",
      "  Status: ", IF _get(device, "state", 0) = 1 THEN "Online" ELSE "Offline",
      "  IP: ", field(device, "ip", "N/A"),
      "  Firmware: ", field(device, "version", "N/A"), "">>

format_devices(devices) ==
    IF devices = <<>>
    THEN Formatted(<<"No devices found.">>)
    ELSE for_each(devices, <<"Found ", ToString(Len(devices)), " device(s):\n">>,
                  [i \in 1..Len(devices) |-> device_lines(devices[i])])

\* hostname or name or "Unknown" (an absent key counts as falsy)
client_lines(c) ==
    <<"- ", IF "hostname" \in DOMAIN c THEN ToString(c.hostname)
            ELSE field(c, "name", "Unknown"),
      "  MAC: ", field(c, "mac", "Unknown"),
      "  IP: ", field(c, "ip", "N/A"),
      "  Connection: ", IF _get(c, "is_wired", FALSE) THEN "Wired" ELSE "Wireless">>
      \o (IF "essid" \in DOMAIN c THEN <<"  SSID: ", ToString(c.essid)>> ELSE <<>>)
      \o <<"  Traffic: TX ">> \o format_bytes(_get(c, "tx_bytes", 0))
      \o <<" / RX ">> \o format_bytes(_get(c, "rx_bytes", 0)) \o <<"">>

format_clients(clients) ==
    IF clients = <<>>
    THEN Formatted(<<"No clients found.">>)
    ELSE for_each(clients, <<"Found ", ToString(Len(clients)), " client(s):\n">>,
                  [i \in 1..Len(clients) |-> client_lines(clients[i])])

site_lines(site) ==
    <<"- ", field(site, "desc", field(site, "name", "Unknown")),
      "  Name: ", field(site, "name", "Unknown"),
      "  ID: ", field(site, "_id", "N/A"), "">>

format_sites(sites) ==
    IF sites = <<>>
    THEN Formatted(<<"No sites found.">>)
    ELSE for_each(sites, <<"Found ", ToString(Len(sites)), " site(s):\n">>,
                  [i \in 1..Len(sites) |-> site_lines(sites[i])])

\* str.upper on the subsystem names
upper(s) ==
    CASE s = "Unknown" -> "UNKNOWN"
      [] s = "wan" -> "WAN"
      [] s = "wlan" -> "WLAN"
      [] s = "lan" -> "LAN"
      [] OTHER -> s

subsystem_lines(subsystem) ==
    LET subsys_name == _get(subsystem, "subsystem", "Unknown")
    IN  <<"- ", upper(subsys_name),
          "  Status: ", field(subsystem, "status", "unknown")>>
          \o (CASE subsys_name = "wan" ->
                     <<"  Gateway: ", field(subsystem, "gw_mac", "N/A")>>
                [] subsys_name = "wlan" ->
                     <<"  Access Points: ", field(subsystem, "num_ap", "0"),
                       "  Wireless Clients: ", field(subsystem, "num_user", "0")>>
                [] subsys_name = "lan" ->
                     <<"  Switches: ", field(subsystem, "num_sw", "0"),
                       "  Wired Clients: ", field(subsystem, "num_user", "0")>>
                [] OTHER -> <<>>)
          \o <<"">>

format_health(health) ==
    IF health = <<>>
    THEN Formatted(<<"No health data available.">>)
    ELSE for_each(health, <<"Site Health Status:\n">>,
                  [i \in 1..Len(health) |-> subsystem_lines(health[i])])

network_lines(net) ==
    <<"- ", field(net, "name", "Unknown"),
      "  Purpose: ", field(net, "purpose", "unknown"),
      "  VLAN: ", field(net, "vlan", "N/A"),
      "  Subnet: ", field(net, "ip_subnet", "N/A"),
      "  Status: ", IF _get(net, "enabled", TRUE) THEN "Enabled" ELSE "Disabled",
      "">>

format_networks(networks) ==
    IF networks = <<>>
    THEN Formatted(<<"No networks configured.">>)
    ELSE for_each(networks, <<"Found ", ToString(Len(networks)), " network(s):\n">>,
                  [i \in 1..Len(networks) |-> network_lines(networks[i])])

\* list_tools (lines 16-130): the declared tools, each with the required
\* properties of its input schema
list_tools ==
    << [name |-> "get_devices", required |-> {}],
       [name |-> "restart_device", required |-> {"mac"}],
       [name |-> "get_clients", required |-> {}],
       [name |-> "block_client", required |-> {"mac"}],
       [name |-> "unblock_client", required |-> {"mac"}],
       [name |-> "disconnect_client", required |-> {"mac"}],
       [name |-> "get_sites", required |-> {}],
       [name |-> "get_site_health", required |-> {}],
       [name |-> "get_networks", required |-> {}] >>

\* the tool names that call_tool has a case for
ToolNames ==
    {"get_devices", "restart_device", "get_clients", "block_client",
     "unblock_client", "disconnect_client", "get_sites", "get_site_health",
     "get_networks"}

\* the tools that take arguments.get("mac", "")
MacTools == {"restart_device", "block_client", "unblock_client", "disconnect_client"}

\* the client method the case of a tool name calls
tool_method(name, arguments) ==
    IF name = "get_clients" /\ _get(arguments, "include_offline", FALSE)
    THEN "get_all_clients"
    ELSE name

\* a dispatch whose default case does not name the tool
tool_text_unknown_bare(name, arguments, ret) ==
    LET mac == Str(_get(arguments, "mac", <<>>))
    IN  CASE name = "get_devices" -> format_devices(ret)
          [] name = "restart_device" ->
               Formatted(<<"Restart command sent to device ", mac>>)
          [] name = "get_clients" -> format_clients(ret)
          [] name = "block_client" ->
               Formatted(<<"Client ", mac, " has been blocked from the network.">>)
          [] name = "unblock_client" ->
               Formatted(<<"Client ", mac, " has been unblocked.">>)
          [] name = "disconnect_client" ->
               Formatted(<<"Client ", mac, " has been disconnected.">>)
          [] name = "get_sites" -> format_sites(ret)
          [] name = "get_site_health" -> format_health(ret)
          [] name = "get_networks" -> format_networks(ret)
          [] OTHER -> Formatted(<<"Unknown tool">>)

\* the text the case of a tool name returns for the value ret of its method
\* (lines 150-215); formatting may raise
tool_text(name, arguments, ret) ==
    LET mac == Str(_get(arguments, "mac", <<>>))
    IN  CASE name = "get_devices" -> format_devices(ret)
          [] name = "restart_device" ->
               Formatted(<<"Restart command sent to device ", mac>>)
          [] name = "get_clients" -> format_clients(ret)
          [] name = "block_client" ->
               Formatted(<<"Client ", mac, " has been blocked from the network.">>)
          [] name = "unblock_client" ->
               Formatted(<<"Client ", mac, " has been unblocked.">>)
          [] name = "disconnect_client" ->
               Formatted(<<"Client ", mac, " has been disconnected.">>)
          [] name = "get_sites" -> format_sites(ret)
          [] name = "get_site_health" -> format_health(ret)
          [] name = "get_networks" -> format_networks(ret)
          [] OTHER -> Formatted(<<"Unknown tool: ", name>>)

\* a dispatch that calls the method of a tool twice
match_name_twice(client, w, name, arguments, out) ==
    IF name \notin ToolNames
    THEN [self |-> client, wire |-> w, raised |-> NoExc, msg |-> <<>>,
          ret |-> <<>>, ops |-> <<>>]
    ELSE
      LET op == tool_method(name, arguments)
          r1 == call_method(client, w, op, _get(arguments, "mac", <<>>), out)
          r == IF r1.raised # NoExc THEN r1
               ELSE call_method(r1.self, r1.wire, op,
                                _get(arguments, "mac", <<>>), out)
      IN  [self |-> r.self, wire |-> r.wire, raised |-> r.raised, msg |-> r.msg,
           ret |-> r.ret, ops |-> <<op, op>>]

\* a dispatch that reads arguments["mac"] without a default
match_name_requiring_mac(client, w, name, arguments, out) ==
    IF name \notin ToolNames
    THEN [self |-> client, wire |-> w, raised |-> NoExc, msg |-> <<>>,
          ret |-> <<>>, ops |-> <<>>]
    ELSE IF name \in MacTools /\ "mac" \notin DOMAIN arguments
    THEN [self |-> client, wire |-> w, raised |-> "KeyError", msg |-> <<"'mac'">>,
          ret |-> <<>>, ops |-> <<>>]
    ELSE
      LET op == tool_method(name, arguments)
          r == call_method(client, w, op, _get(arguments, "mac", <<>>), out)
      IN  [self |-> r.self, wire |-> r.wire, raised |-> r.raised, msg |-> r.msg,
           ret |-> r.ret, ops |-> <<op>>]

\* match name (lines 146-215): the case of the name awaits one client
\* method, any other name awaits none; ops lists the methods called
match_name(client, w, name, arguments, out) ==
    IF name \notin ToolNames
    THEN [self |-> client, wire |-> w, raised |-> NoExc, msg |-> <<>>,
          ret |-> <<>>, ops |-> <<>>]
    ELSE
      LET op == tool_method(name, arguments)
          r == call_method(client, w, op, _get(arguments, "mac", <<>>), out)
      IN  [self |-> r.self, wire |-> r.wire, raised |-> r.raised, msg |-> r.msg,
           ret |-> r.ret, ops |-> <<op>>]

\* what call_tool hands to its caller: the list it returns, or the exception
\* that escapes it
Returned(text) ==
    [result |-> << [type |-> "text", text |-> text] >>, escaped |-> NoExc]

\* except clauses that let everything but UniFiError through
call_tool_except_unifi_only(raised, msg) ==
    IF issubclass(raised, "UniFiError")
    THEN Returned(<<"Error: ">> \o msg)
    ELSE [result |-> <<>>, escaped |-> raised]

\* the except clauses of call_tool (lines 217-220)
call_tool_except(raised, msg) ==
    IF issubclass(raised, "UniFiError")
    THEN Returned(<<"Error: ">> \o msg)
    ELSE IF issubclass(raised, "Exception")
    THEN Returned(<<"Unexpected error: ">> \o msg)
    ELSE [result |-> <<>>, escaped |-> raised]

(***************************************************************************)
(* Tool invocations: call_tool, one step per awaited client call           *)
(***************************************************************************)
\* In this specification self is the client of the invocation in progress
\* (or of the last one), wire the requests sent on its connection, calls
\* the number of invocations started, and last the frame of call_tool.
MaxTools == 2

\* UniFiClient() : every argument left out
NoArgs ==
    [host |-> Omitted, username |-> Omitted, password |-> Omitted,
     site |-> Omitted, verify_ssl |-> Omitted, is_unifi_os |-> Omitted]

\* process environments: nothing set, and a fully configured OS-integrated
\* controller
ToolEnvs ==
    {e \in EnvSets :
        \/ \A k \in DOMAIN e : e[k] = Omitted
        \/ /\ \A k \in DOMAIN e : e[k] # Omitted
           /\ e.UNIFI_VERIFY_SSL = <<false_str>>
           /\ e.UNIFI_IS_UNIFI_OS = <<true_str>>}

\* names a caller may pass: the known tools, the tool the tests expect
\* besides them, and a name that is no tool at all
CalledNames == ToolNames \cup {"get_device_activity", "unknown_tool"}

\* the arguments dict of an invocation
ToolArguments ==
    {EmptyDict, [include_offline |-> TRUE], [mac |-> <<"A", "a", ":", "0", "F">>]}

\* the answers to the operation request: those of the typed operations, a
\* timeout, a 2xx answer that is not JSON, and an ok envelope whose data
\* holds an element that is not an object
ToolOutcomes ==
    OpOutcomes
      \cup {o \in Outcomes : o.exc = "ReadTimeout"}
      \cup {o \in Outcomes : o.exc = NoExc /\ o.status = 200 /\ ~o.is_json}
      \cup {[exc |-> NoExc, status |-> 200, is_json |-> TRUE,
             doc |-> [meta |-> [rc |-> "ok"],
                      data |-> <<[name |-> 1], NotAnObject>>]]}

\* the frame of call_tool after a step: pre is the client as constructed,
\* entry the exception __aenter__ raised, ops the client methods called,
\* out the answer to the operation request
Frame(pc, name, arguments, pre, entry, ops, out, exited, raised, msg, text, ret) ==
    [op |-> "call_tool", pc |-> pc, name |-> name, arguments |-> arguments,
     pre |-> pre, entered |-> 1, entry |-> entry, ops |-> ops, out |-> out,
     exited |-> exited,
     raised |-> raised, msg |-> msg, text |-> text,
     result |-> ret.result, escaped |-> ret.escaped]

NotReturned == [result |-> <<>>, escaped |-> NoExc]

\* the server is asked for its tools before the first invocation
ListTools ==
    /\ last.op = "start"
    /\ last' = [op |-> "list_tools", result |-> list_tools]
    /\ UNCHANGED <<self, wire, calls>>

\* lines 144-145: UniFiClient() from the environment and __aenter__; when
\* the login raises, the except clauses answer and __aexit__ is not called
ToolEnter ==
    /\ \/ last.op \in {"start", "list_tools"}
       \/ last.op = "call_tool" /\ last.pc = "returned"
    /\ calls < MaxTools
    /\ \E name \in CalledNames, arguments \in ToolArguments, e \in ToolEnvs,
          out \in BodylessOutcomes :
          \E client \in {__init__(NoArgs, Environ(e))} :
          \E r \in {__aenter__(client, <<>>, out)} :
              /\ self' = r.self
              /\ wire' = r.wire
              /\ last' = IF r.raised # NoExc
                         THEN Frame("returned", name, arguments, client, r.raised,
                                    <<>>, NoOutcome, 0, r.raised, r.msg, <<>>,
                                    call_tool_except(r.raised, r.msg))
                         ELSE Frame("body", name, arguments, client, NoExc,
                                    <<>>, NoOutcome, 0, NoExc, <<>>, <<>>,
                                    NotReturned)
              /\ calls' = calls + 1

\* lines 146-215: the case of the name runs up to its return statement:
\* the awaited client method, then the text of the answer
ToolBody ==
    /\ last.op = "call_tool" /\ last.pc = "body"
    /\ \E out \in ToolOutcomes :
          \E r \in {match_name(self, wire, last.name, last.arguments, out)} :
          \E f \in {IF r.raised # NoExc
                    THEN [raised |-> r.raised, msg |-> r.msg, text |-> <<>>]
                    ELSE tool_text(last.name, last.arguments, r.ret)} :
              /\ self' = r.self
              /\ wire' = r.wire
              /\ last' = Frame("exit", last.name, last.arguments, last.pre,
                               NoExc, r.ops,
                               IF r.ops = <<>> THEN NoOutcome ELSE out,
                               0, f.raised, f.msg, f.text, NotReturned)
              /\ calls' = calls

\* leaving the "async with" (by return or by exception) calls __aexit__;
\* then the text is returned, or the except clauses answer
ToolExit ==
    /\ last.op = "call_tool" /\ last.pc = "exit"
    /\ \E out \in BodylessOutcomes :
          \E r \in {__aexit__(self, wire, out)} :
          \E raised \in {IF r.raised # NoExc THEN r.raised ELSE last.raised},
             msg \in {IF r.raised # NoExc THEN r.msg ELSE last.msg} :
              /\ self' = r.self
              /\ wire' = r.wire
              /\ last' = Frame("returned", last.name, last.arguments, last.pre,
                               NoExc, last.ops, last.out, 1, raised, msg,
                               last.text,
                               IF raised # NoExc
                               THEN call_tool_except(raised, msg)
                               ELSE Returned(last.text))
              /\ calls' = calls

NextTool == ListTools \/ ToolEnter \/ ToolBody \/ ToolExit

SpecTool == InitConfig /\ [][NextTool]_vars

(***************************************************************************)
(* Concurrent tool invocations: the steps of several call_tool coroutines  *)
(* interleave at their awaited client calls                                *)
(***************************************************************************)
\* In this specification self maps a client object to its attributes, wire
\* maps it to the requests sent on its connection, last maps an invocation
\* to the frame of its call_tool, and calls counts the invocations started.
MaxTasks == 2

Tasks == 1..MaxTasks

\* all invocations construct into one client object
client_of_shared(t) == 1

\* the client object of invocation t: UniFiClient() constructs a new object
\* whose _client and _logged_in are attributes of that object
client_of(t) == t

\* the process environment, the same for all invocations
ConcEnviron ==
    Environ([UNIFI_HOST |-> <<"https://env.unifi.local">>,
             UNIFI_USERNAME |-> <<"envuser">>, UNIFI_PASSWORD |-> <<"envpass">>,
             UNIFI_SITE |-> Omitted, UNIFI_VERIFY_SSL |-> Omitted,
             UNIFI_IS_UNIFI_OS |-> Omitted])

ConcNames == {"get_sites", "block_client"}

ConcArguments == [mac |-> <<"A", "a", ":", "0", "F">>]

\* answers to login and logout: accepted, rejected, unreachable
ConcBodyless ==
    {o \in BodylessOutcomes : o.status \in {200, 401} \/ o.exc = "ConnectError"}

\* answers to the operation request: an ok envelope with one element, an
\* error envelope, a connection failure
ConcOutcomes ==
    {o \in OpOutcomes :
        \/ o.exc = "ConnectError"
        \/ /\ o.exc = NoExc /\ o.is_json /\ "data" \in DOMAIN o.doc
           /\ Len(o.doc.data) = 1}

\* call_tool run from start to end on a client of its own, answered outs[1]
\* at login, outs[2] at the operation request and outs[3] at logout
call_tool(name, arguments, environ, outs) ==
    LET client == __init__(NoArgs, environ)
        e == __aenter__(client, <<>>, outs[1])
        r == match_name(e.self, e.wire, name, arguments, outs[2])
        f == IF r.raised # NoExc
             THEN [raised |-> r.raised, msg |-> r.msg, text |-> <<>>]
             ELSE tool_text(name, arguments, r.ret)
        x == __aexit__(r.self, r.wire, outs[3])
    IN  IF e.raised # NoExc THEN call_tool_except(e.raised, e.msg)
        ELSE IF x.raised # NoExc THEN call_tool_except(x.raised, x.msg)
        ELSE IF f.raised # NoExc THEN call_tool_except(f.raised, f.msg)
        ELSE Returned(f.text)

\* the frame of an invocation: outs are the answers it got so far
ConcFrame(pc, name, outs, raised, msg, text, ret) ==
    [pc |-> pc, name |-> name, outs |-> outs, raised |-> raised, msg |-> msg,
     text |-> text, result |-> ret.result, escaped |-> ret.escaped]

InitConc ==
    /\ self = [c \in Tasks |-> [_client |-> None, _logged_in |-> FALSE]]
    /\ wire = [c \in Tasks |-> <<>>]
    /\ last = [t \in Tasks |->
                 ConcFrame("start", "", <<>>, NoExc, <<>>, <<>>, NotReturned)]
    /\ calls = 0

\* invocation t constructs its client and enters its scope
ConcEnter ==
    \E t \in Tasks, name \in ConcNames, out \in ConcBodyless :
        /\ last[t].pc = "start"
        /\ \E r \in {__aenter__(__init__(NoArgs, ConcEnviron), <<>>, out)} :
              /\ self' = [self EXCEPT ![client_of(t)] = r.self]
              /\ wire' = [wire EXCEPT ![client_of(t)] = r.wire]
              /\ last' = [last EXCEPT ![t] =
                            IF r.raised # NoExc
                            THEN ConcFrame("returned", name, <<out>>, r.raised,
                                           r.msg, <<>>,
                                           call_tool_except(r.raised, r.msg))
                            ELSE ConcFrame("body", name, <<out>>, NoExc, <<>>,
                                           <<>>, NotReturned)]
              /\ calls' = calls + 1

\* invocation t runs the case of its name on its client
ConcBody ==
    \E t \in Tasks, out \in ConcOutcomes :
        /\ last[t].pc = "body"
        /\ \E r \in {match_name(self[client_of(t)], wire[client_of(t)],
                                last[t].name, ConcArguments, out)} :
           \E f \in {IF r.raised # NoExc
                     THEN [raised |-> r.raised, msg |-> r.msg, text |-> <<>>]
                     ELSE tool_text(last[t].name, ConcArguments, r.ret)} :
              /\ self' = [self EXCEPT ![client_of(t)] = r.self]
              /\ wire' = [wire EXCEPT ![client_of(t)] = r.wire]
              /\ last' = [last EXCEPT ![t] =
                            ConcFrame("exit", last[t].name,
                                      Append(last[t].outs, out),
                                      f.raised, f.msg, f.text, NotReturned)]
              /\ calls' = calls

\* invocation t leaves the scope of its client and returns
ConcExit ==
    \E t \in Tasks, out \in ConcBodyless :
        /\ last[t].pc = "exit"
        /\ \E r \in {__aexit__(self[client_of(t)], wire[client_of(t)], out)} :
           \E raised \in {IF r.raised # NoExc THEN r.raised ELSE last[t].raised},
              msg \in {IF r.raised # NoExc THEN r.msg ELSE last[t].msg} :
              /\ self' = [self EXCEPT ![client_of(t)] = r.self]
              /\ wire' = [wire EXCEPT ![client_of(t)] = r.wire]
              /\ last' = [last EXCEPT ![t] =
                            ConcFrame("returned", last[t].name,
                                      Append(last[t].outs, out), raised, msg,
                                      last[t].text,
                                      IF raised # NoExc
                                      THEN call_tool_except(raised, msg)
                                      ELSE Returned(last[t].text))]
              /\ calls' = calls

NextConc == ConcEnter \/ ConcBody \/ ConcExit

SpecConc == InitConc /\ [][NextConc]_vars

(***************************************************************************)
(* Properties                                                              *)
(***************************************************************************)
\* the call answered with a 2xx response
IsSuccess(out) == out.exc = NoExc /\ out.status \in 200..299

\* the last call was a login (direct or by scope entry) whose POST was
\* carried by an open connection
LoginCarried ==
    \/ last.op = "__aenter__"
    \/ last.op = "login" /\ last.pre._client = "open"

\* the last call was a _request carried by an open connection
RequestCarried == last.op = "_request" /\ last.pre._client = "open"

\* positions of the login requests in a sequence of HTTP calls
LoginRequests(w) ==
    {i \in DOMAIN w : w[i].url \in {<<"api", "login">>, <<"api", "auth", "login">>}}

\* meta.rc of the envelope the last call was answered with (None if absent)
AnsweredRc == _get(_get(last.out.doc, "meta", EmptyDict), "rc", None)

\* C1 (as claimed): _request sends an HTTP request only if the
\* authenticated flag _logged_in is true.
C1_SendsOnlyWhenAuthenticated ==
    (last.op = "_request" /\ last.nsent > 0) => last.pre._logged_in

\* C1 (amended): _request sends an HTTP request only if the connection
\* handle _client is set, whatever the authenticated flag; on an unopened
\* session it sends nothing and fails with RuntimeError.
C1_SendsOnlyWhenOpened ==
    last.op = "_request" =>
        /\ last.nsent > 0 => last.pre._client # None
        /\ last.pre._client = None =>
              last.nsent = 0 /\ last.raised = "RuntimeError"

\* C1 witness: a _request on an opened, unauthenticated session was sent.
C1_Witness ==
    /\ last.op = "_request"
    /\ last.pre._client = "open"
    /\ ~last.pre._logged_in
    /\ last.nsent = 1

C3_ExitClearsFlag ==
    (last.op = "__aexit__" /\ last.pre._client = "open" /\ last.pre._logged_in)
        => ~self._logged_in

\* C4: every execution of __aexit__ on a session whose connection was
\* opened ends with the connection closed.
C4_ExitClosesConnection ==
    (last.op = "__aexit__" /\ last.pre._client # None) => self._client = "closed"

\* C4 witness: scope exit of an authenticated session whose logout call
\* failed in transport, and the connection is closed.
C4_Witness ==
    /\ last.op = "__aexit__"
    /\ last.pre._client = "open"
    /\ last.pre._logged_in
    /\ last.nsent = 1
    /\ last.out.exc = "ConnectError"
    /\ self._client = "closed"

\* C5: when the logout call of a scope exit fails (non-2xx response or
\* transport error), __aexit__ returns normally.
C5_LogoutFailureSwallowed ==
    ( /\ last.op = "__aexit__"
      /\ last.pre._client = "open"
      /\ last.pre._logged_in
      /\ ~IsSuccess(last.out) ) => last.raised = NoExc

\* C5 witness: the logout call of a scope exit timed out and the exit
\* returned normally.
C5_Witness ==
    /\ last.op = "__aexit__"
    /\ last.pre._client = "open"
    /\ last.pre._logged_in
    /\ last.nsent = 1
    /\ last.out.exc = "ReadTimeout"
    /\ last.raised = NoExc

\* C6: logout or __aexit__ on a session that is unopened, unauthenticated
\* or already exited is a no-op: no HTTP call, no error, flag unchanged.
C6_ExitIdempotent ==
    ( /\ last.op \in {"__aexit__", "logout"}
      /\ \/ last.pre._client = None
         \/ ~last.pre._logged_in
         \/ last.pre._client = "closed" )
    => /\ last.nsent = 0
       /\ last.raised = NoExc
       /\ self._logged_in = last.pre._logged_in

\* C7 (as claimed): at most one login request is ever sent on one instance.
C7_AtMostOneLoginEver == Cardinality(LoginRequests(wire)) <= 1

\* C7 (amended): one authentication per login call or scope entry: login
\* and __aenter__ send exactly one login request when the connection
\* carries it and none otherwise; logout, __aexit__ and _request send no
\* login request and never make the session Authenticated.
C7_OneLoginPerEntry ==
    LET sent == SubSeq(wire, Len(wire) - last.nsent + 1, Len(wire))
        n == Cardinality(LoginRequests(sent))
    IN  /\ last.op \in {"login", "__aenter__"} =>
              /\ last.nsent = n
              /\ n = IF LoginCarried THEN 1 ELSE 0
        /\ last.op \in {"logout", "__aexit__", "_request"} =>
              /\ n = 0
              /\ self._logged_in => last.pre._logged_in

\* C7 witness: a second scope entry on the same instance sent a second
\* login request and the session is Authenticated again.
C7_Witness ==
    /\ last.op = "__aenter__"
    /\ last.pre._client = "closed"
    /\ ~last.pre._logged_in
    /\ self._logged_in
    /\ Cardinality(LoginRequests(wire)) = 2

C9_ErrorEnvelopeRaises ==
    ( /\ RequestCarried
      /\ IsSuccess(last.out)
      /\ last.out.is_json
      /\ AnsweredRc = "error" )
    => /\ last.raised = "UniFiError"
       /\ last.ret = <<>>
       /\ "msg" \in DOMAIN last.out.doc.meta =>
              last.msg = <<last.out.doc.meta.msg>>
       /\ "msg" \notin DOMAIN last.out.doc.meta =>
              last.msg = <<"Unknown API error">>

\* C9 witness: an error envelope with a message and a non-empty data list,
\* answered with status 200, raised UniFiError carrying that message.
C9_Witness ==
    /\ RequestCarried
    /\ last.out.status = 200
    /\ last.out.is_json
    /\ last.out.doc = [meta |-> [rc |-> "error", msg |-> "api.err.LoginRequired"],
                       data |-> <<[name |-> 1]>>]
    /\ last.raised = "UniFiError"
    /\ last.msg = <<"api.err.LoginRequired">>

\* C10 (as claimed): _request returns to its caller only when the
\* envelope's meta.rc is "ok".
C10_ReturnsOnlyWhenRcOk ==
    (last.op = "_request" /\ last.raised = NoExc) => AnsweredRc = "ok"

\* C10 (amended): _request raises instead of returning the payload for
\* every non-2xx response and for every envelope whose meta.rc is "error";
\* for a 2xx response with any other envelope (rc "ok", another value, rc
\* missing, meta missing) it returns the payload.
C10_ReturnsUnlessRcError ==
    RequestCarried =>
        /\ last.raised = NoExc =>
              /\ IsSuccess(last.out)
              /\ last.out.is_json
              /\ AnsweredRc # "error"
        /\ (IsSuccess(last.out) /\ last.out.is_json /\ AnsweredRc # "error") =>
              /\ last.raised = NoExc
              /\ last.ret = _get(last.out.doc, "data", <<>>)

\* C10 witness: a 2xx envelope without meta was answered and its payload
\* was returned.
C10_Witness ==
    /\ RequestCarried
    /\ last.out.status = 200
    /\ last.out.doc = [data |-> <<[name |-> 1], [name |-> 2]>>]
    /\ last.raised = NoExc
    /\ last.ret = <<[name |-> 1], [name |-> 2]>>

\* C11: a 2xx response whose envelope has meta.rc = "ok" makes _request
\* return without error: the empty list when the envelope has no data key,
\* the data list itself (same elements, same order) when it has one.
C11_OkEnvelopeReturnsData ==
    ( /\ RequestCarried
      /\ IsSuccess(last.out)
      /\ last.out.is_json
      /\ AnsweredRc = "ok" )
    => /\ last.raised = NoExc
       /\ "data" \notin DOMAIN last.out.doc => last.ret = <<>>
       /\ "data" \in DOMAIN last.out.doc =>
             /\ Len(last.ret) = Len(last.out.doc.data)
             /\ \A i \in 1..Len(last.ret) : last.ret[i] = last.out.doc.data[i]

\* C11 witness: an ok envelope without a data key was answered and the
\* empty list was returned.
C11_Witness ==
    /\ RequestCarried
    /\ last.out.status = 200
    /\ last.out.doc = [meta |-> [rc |-> "ok"]]
    /\ last.raised = NoExc
    /\ last.ret = <<>>

(***************************************************************************)
(* Properties of the typed operations (SpecOps)                            *)
(***************************************************************************)
TypedOps == ListOps \cup LookupOps \cup CommandOps

\* the last call was a typed operation whose request was carried
OperationCarried == last.op \in TypedOps /\ last.pre._client = "open"

\* the HTTP call the last operation made
Sent == wire[Len(wire)]

\* the payload list of the envelope the last call was answered with
AnsweredData == _get(last.out.doc, "data", <<>>)

\* the last call was answered 2xx with an envelope that is not an error
AnsweredOk == IsSuccess(last.out) /\ last.out.is_json /\ AnsweredRc # "error"

\* the lower-case letter of each upper-case letter of the MAC alphabet
LowerOf == [c \in {"A", "B", "C", "D", "E", "F"} |->
              CASE c = "A" -> "a" [] c = "B" -> "b" [] c = "C" -> "c"
                [] c = "D" -> "d" [] c = "E" -> "e" [] c = "F" -> "f"]

\* the MAC with every upper-case letter replaced by its lower-case letter
Lowered(mac) ==
    Str([i \in 1..Len(mac) |->
            IF mac[i] \in DOMAIN LowerOf THEN LowerOf[mac[i]] ELSE mac[i]])

\* the table of section 4.1 of the specification: method, path template
\* and body of each typed operation
TableMethod(op) == IF op \in CommandOps THEN "POST" ELSE "GET"

TablePath(op, mac) ==
    CASE op = "get_devices" -> <<"api", "s", "{site}", "stat", "device">>
      [] op = "get_device" -> <<"api", "s", "{site}", "stat", "device", Str(mac)>>
      [] op = "restart_device" -> <<"api", "s", "{site}", "cmd", "devmgr">>
      [] op = "get_clients" -> <<"api", "s", "{site}", "stat", "sta">>
      [] op = "get_all_clients" -> <<"api", "s", "{site}", "stat", "alluser">>
      [] op = "get_client" -> <<"api", "s", "{site}", "stat", "user", Str(mac)>>
      [] op \in {"block_client", "unblock_client", "disconnect_client"} ->
            <<"api", "s", "{site}", "cmd", "stamgr">>
      [] op = "get_sites" -> <<"api", "self", "sites">>
      [] op = "get_site_health" -> <<"api", "s", "{site}", "stat", "health">>
      [] op = "get_networks" -> <<"api", "s", "{site}", "rest", "networkconf">>
      [] op = "get_dpi_stats" -> <<"api", "s", "{site}", "stat", "dpi">>

TableCmd(op) ==
    CASE op = "restart_device" -> "restart"
      [] op = "block_client" -> "block-sta"
      [] op = "unblock_client" -> "unblock-sta"
      [] op = "disconnect_client" -> "kick-sta"

\* url is the template e with the site put in place of {site}, after the
\* prefix /proxy/network when os and no prefix otherwise
IsBuiltFrom(url, e, site, os) ==
    LET k == IF os THEN 2 ELSE 0
    IN  /\ Len(url) = k + Len(e)
        /\ os => (url[1] = "proxy" /\ url[2] = "network")
        /\ \A i \in 1..Len(e) :
              url[k + i] = IF e[i] = "{site}" THEN site ELSE e[i]

\* C15: the path an operation requests is its endpoint template with
\* {site} replaced by the configured site, prefixed with /proxy/network
\* when is_unifi_os and with nothing when legacy, also for /api/self/sites.
C15_PathBuilding ==
    OperationCarried =>
        /\ IsBuiltFrom(Sent.url, TablePath(last.op, last.mac),
                       last.pre.site, last.pre.is_unifi_os)
        /\ (last.op = "get_devices" /\ last.pre.site = "default") =>
              Sent.url = IF last.pre.is_unifi_os
                         THEN <<"proxy", "network", "api", "s", "default",
                                "stat", "device">>
                         ELSE <<"api", "s", "default", "stat", "device">>

\* C15 witness: on an OS-integrated session the non-site-scoped list of
\* sites was requested under the prefix.
C15_Witness ==
    /\ last.op = "get_sites"
    /\ last.pre._client = "open"
    /\ last.pre.is_unifi_os
    /\ last.nsent = 1
    /\ Sent.url = <<"proxy", "network", "api", "self", "sites">>

\* C17: restart_device, block_client, unblock_client and disconnect_client
\* send the lower-cased MAC in the request body, whatever the casing of
\* the MAC they are given.
C17_MacLowerCased ==
    (last.op \in CommandOps /\ last.pre._client = "open") =>
        /\ last.nsent = 1
        /\ Sent.json.mac = Lowered(last.mac)
        /\ Str(last.mac) = "AA:BB:CC:DD:EE:FF" =>
              Sent.json.mac = "aa:bb:cc:dd:ee:ff"

\* C17 witness: block_client was given a MAC in mixed case and sent it in
\* lower case.
C17_Witness ==
    /\ last.op = "block_client"
    /\ last.pre._client = "open"
    /\ last.mac = <<"A", "a", ":", "0", "F">>
    /\ last.nsent = 1
    /\ Sent.json = [cmd |-> "block-sta", mac |-> "aa:0f"]

\* C19: each typed operation makes exactly one request, with the method,
\* path template and body of the table; a list operation returns the
\* payload of _request unchanged, a command returns True exactly when the
\* request ended without error.
C19_TypedOperationTable ==
    /\ (last.op \in TypedOps /\ last.pre._client = None) =>
          last.nsent = 0 /\ last.raised = "RuntimeError"
    /\ OperationCarried =>
          /\ last.nsent = 1
          /\ Sent.method = TableMethod(last.op)
          /\ IsBuiltFrom(Sent.url, TablePath(last.op, last.mac),
                         last.pre.site, last.pre.is_unifi_os)
          /\ Sent.json = IF last.op \in CommandOps
                         THEN [cmd |-> TableCmd(last.op),
                               mac |-> Lowered(last.mac)]
                         ELSE NoBody
          /\ last.raised = NoExc <=> AnsweredOk
          /\ (last.op \in ListOps /\ last.raised = NoExc) =>
                last.ret = AnsweredData
          /\ (last.op \in CommandOps /\ last.raised = NoExc) =>
                last.ret = TRUE

\* C19 witness: unblock_client sent POST cmd/stamgr with cmd unblock-sta
\* and returned True.
C19_Witness ==
    /\ last.op = "unblock_client"
    /\ last.pre._client = "open"
    /\ last.pre.site = "mysite"
    /\ ~last.pre.is_unifi_os
    /\ Sent = [method |-> "POST",
               url |-> <<"api", "s", "mysite", "cmd", "stamgr">>,
               json |-> [cmd |-> "unblock-sta", mac |-> "aa:0f"]]
    /\ last.raised = NoExc
    /\ last.ret = TRUE

\* C20: get_device and get_client return the first element of the payload
\* when it is not empty and None when it is empty, and an empty payload
\* raises nothing.
C20_FirstElementOrNone ==
    (last.op \in LookupOps /\ last.pre._client = "open") =>
        /\ AnsweredOk => last.raised = NoExc
        /\ (last.raised = NoExc /\ Len(AnsweredData) = 0) => last.ret = None
        /\ (last.raised = NoExc /\ Len(AnsweredData) > 0) =>
              last.ret = AnsweredData[1]

\* C20 witness: get_device was answered a payload of two elements and
\* returned the first.
C20_Witness ==
    /\ last.op = "get_device"
    /\ last.pre._client = "open"
    /\ last.raised = NoExc
    /\ AnsweredData = <<[name |-> 1], [name |-> 2]>>
    /\ last.ret = [name |-> 1]

(***************************************************************************)
(* Properties of construction and login (SpecConfig)                       *)
(***************************************************************************)
\* C16: login posts exactly once, to /api/login on a legacy session and to
\* /api/auth/login on an OS-integrated one, without the /proxy/network
\* prefix, with the configured username and password as body.
C16_LoginRequest ==
    last.op = "__aenter__" =>
        /\ last.nsent = 1
        /\ Sent.method = "POST"
        /\ Sent.url = IF self.is_unifi_os
                      THEN <<"api", "auth", "login">>
                      ELSE <<"api", "login">>
        /\ Sent.json = [username |-> self.username, password |-> self.password]

\* C16 witness: a session configured from the environment as OS-integrated
\* logged in with one POST to /api/auth/login carrying the environment's
\* credentials.
C16_Witness ==
    /\ last.op = "__aenter__"
    /\ self.is_unifi_os
    /\ self._logged_in
    /\ wire = << [method |-> "POST", url |-> <<"api", "auth", "login">>,
                  json |-> [username |-> "envuser", password |-> "envpass"]] >>

\* the environment variable of each configuration field
EnvVarOf ==
    [f \in {"host", "username", "password", "site", "verify_ssl", "is_unifi_os"} |->
        CASE f = "host" -> "UNIFI_HOST"
          [] f = "username" -> "UNIFI_USERNAME"
          [] f = "password" -> "UNIFI_PASSWORD"
          [] f = "site" -> "UNIFI_SITE"
          [] f = "verify_ssl" -> "UNIFI_VERIFY_SSL"
          [] f = "is_unifi_os" -> "UNIFI_IS_UNIFI_OS"]

\* the values of a boolean environment variable that mean true
TrueSpellings == {<<"t", "r", "u", "e">>, <<"T", "r", "u", "e">>}

\* C18: for each configuration field, an explicitly passed argument (any
\* value, including the empty string and false) overrides the environment
\* variable; an omitted argument takes the environment variable's value;
\* with both omitted the default applies (site "default", verify_ssl true,
\* is_unifi_os false).
C18_ExplicitOverridesEnvironment ==
    last.op = "__init__" =>
        /\ \A f \in {"host", "username", "password", "site"} :
              /\ last.args[f] # Omitted => self[f] = last.args[f][1]
              /\ (last.args[f] = Omitted /\ EnvVarOf[f] \in DOMAIN last.environ) =>
                    self[f] = last.environ[EnvVarOf[f]]
        /\ \A f \in {"verify_ssl", "is_unifi_os"} :
              /\ last.args[f] # Omitted => self[f] = last.args[f][1]
              /\ (last.args[f] = Omitted /\ EnvVarOf[f] \in DOMAIN last.environ) =>
                    self[f] = (last.environ[EnvVarOf[f]] \in TrueSpellings)
        /\ (last.args.site = Omitted /\ "UNIFI_SITE" \notin DOMAIN last.environ) =>
              self.site = "default"
        /\ (last.args.verify_ssl = Omitted
                /\ "UNIFI_VERIFY_SSL" \notin DOMAIN last.environ) =>
              self.verify_ssl = TRUE
        /\ (last.args.is_unifi_os = Omitted
                /\ "UNIFI_IS_UNIFI_OS" \notin DOMAIN last.environ) =>
              self.is_unifi_os = FALSE

(***************************************************************************)
(* Properties of the tool dispatch (SpecTool)                              *)
(***************************************************************************)
\* call_tool has handed its answer to the caller
ToolReturned == last.op = "call_tool" /\ last.pc = "returned"

\* the requests on the wire that are neither the login nor the logout
OperationRequests(w) ==
    {i \in DOMAIN w : i \notin LoginRequests(w) /\ w[i].url # logout_request.url}

C13_AlwaysOneTextBlock ==
    ToolReturned =>
        /\ last.escaped = NoExc
        /\ Len(last.result) = 1
        /\ last.result[1].type = "text"
        /\ (last.raised # NoExc /\ issubclass(last.raised, "UniFiError")) =>
              last.result[1].text = <<"Error: ">> \o last.msg
        /\ (last.raised # NoExc /\ ~issubclass(last.raised, "UniFiError")) =>
              last.result[1].text = <<"Unexpected error: ">> \o last.msg
        /\ last.raised = NoExc => last.result[1].text = last.text

\* C13 witness: formatting a device list that holds a non-object element
\* raised AttributeError inside the scope, the scope was left, and the
\* caller got one text block with the generic prefix.
C13_Witness ==
    /\ ToolReturned
    /\ last.name = "get_devices"
    /\ last.raised = "AttributeError"
    /\ last.exited = 1
    /\ last.result = << [type |-> "text",
                         text |-> <<"Unexpected error: ",
                                    "'str' object has no attribute 'get'">>] >>

\* C14: no retries: within one call_tool invocation at most one login
\* request and at most one operation request are sent; a failed login
\* leaves the login request as the only request and surfaces as the
\* answer; a failed operation request was sent once and surfaces as the
\* answer.
C14_NoRetries ==
    last.op = "call_tool" =>
        /\ Cardinality(LoginRequests(wire)) <= 1
        /\ Cardinality(OperationRequests(wire)) <= 1
        /\ last.entry # NoExc =>
              /\ wire = <<login_request(last.pre)>>
              /\ last.pc = "returned" /\ last.raised = last.entry
        /\ (last.pc = "exit" /\ last.raised # NoExc
                /\ last.raised # "AttributeError") =>
              Cardinality(OperationRequests(wire)) = 1 /\ Len(wire) = 2
        /\ (last.pc = "returned" /\ last.raised # NoExc) =>
              last.result[1].text[1] \in {"Error: ", "Unexpected error: "}

\* C14 witness: the operation request of get_sites was answered 500; the
\* wire holds the login, that one request and the logout, and the caller
\* got the request's failure.
C14_Witness ==
    /\ ToolReturned
    /\ last.name = "get_sites"
    /\ last.entry = NoExc
    /\ Len(wire) = 3
    /\ wire[2].url = <<"api", "self", "sites">>
    /\ last.result[1].text = <<"Error: ", "Request failed: ", "HTTPStatusError">>

\* C21 (as claimed): an invocation with a name that is not a known tool
\* returns one text block "Unknown tool: <name>", whatever the controller
\* does.
C21_UnknownToolAlwaysNamed ==
    (ToolReturned /\ last.name \notin ToolNames) =>
        last.result = << [type |-> "text",
                          text |-> <<"Unknown tool: ", last.name>>] >>

\* C21 (amended): an invocation with a name that is not a known tool
\* returns exactly one text block.  When the scope entry succeeded it is
\* "Unknown tool: <name>", no client operation was called, and this holds
\* whatever the logout call does; when the login of the entry failed it is
\* the rendering of the login's failure.
C21_UnknownToolAfterLogin ==
    (ToolReturned /\ last.name \notin ToolNames) =>
        /\ Len(last.result) = 1
        /\ last.ops = <<>>
        /\ last.entry = NoExc =>
              last.result[1].text = <<"Unknown tool: ", last.name>>
        /\ last.entry # NoExc =>
              last.result[1].text =
                  (IF issubclass(last.entry, "UniFiError")
                   THEN <<"Error: ">> ELSE <<"Unexpected error: ">>) \o last.msg

\* C21 witness: "unknown_tool" was called, the login succeeded, the logout
\* call failed in transport, and the answer names the unknown tool.
C21_Witness ==
    /\ ToolReturned
    /\ last.name = "unknown_tool"
    /\ Len(wire) = 2
    /\ self._logged_in /\ self._client = "closed"
    /\ last.result[1].text = <<"Unknown tool: ", "unknown_tool">>

\* the tools the tests expect list_tools to declare
ExpectedTools == ToolNames \cup {"get_device_activity"}

\* the names list_tools declares
DeclaredNames == {list_tools[i].name : i \in DOMAIN list_tools}

\* C22: list_tools declares every expected tool, get_device_activity
\* among them, and call_tool dispatches each of these names to a client
\* operation rather than answering "Unknown tool".
C22_ExpectedToolsDispatched ==
    /\ last.op = "list_tools" =>
          ExpectedTools \subseteq {last.result[i].name : i \in DOMAIN last.result}
    /\ (ToolReturned /\ last.name \in ExpectedTools /\ last.entry = NoExc) =>
          /\ Len(last.ops) = 1
          /\ last.result[1].text[1] # "Unknown tool: "

\* the text that reports the command of a tool as done for the MAC mac
DoneText(name, mac) ==
    CASE name = "restart_device" -> <<"Restart command sent to device ", mac>>
      [] name = "block_client" ->
           <<"Client ", mac, " has been blocked from the network.">>
      [] name = "unblock_client" -> <<"Client ", mac, " has been unblocked.">>
      [] name = "disconnect_client" -> <<"Client ", mac, " has been disconnected.">>

\* the command each of the four tools sends
ToolCmd(name) ==
    CASE name = "restart_device" -> "restart"
      [] name = "block_client" -> "block-sta"
      [] name = "unblock_client" -> "unblock-sta"
      [] name = "disconnect_client" -> "kick-sta"

\* C30: restart_device, block_client, unblock_client and disconnect_client
\* invoked without "mac" on a session that was entered are not rejected:
\* the command request is sent with mac = "", and on a successful answer
\* the command is reported as done.
C30_MissingMacSentAsEmpty ==
    (/\ last.op = "call_tool" /\ last.pc \in {"exit", "returned"}
     /\ last.entry = NoExc
     /\ last.name \in MacTools /\ "mac" \notin DOMAIN last.arguments) =>
        /\ last.ops = <<last.name>>
        /\ wire[2].method = "POST"
        /\ wire[2].json = [cmd |-> ToolCmd(last.name), mac |-> ""]
        /\ (/\ IsSuccess(last.out) /\ last.out.is_json
            /\ _get(_get(last.out.doc, "meta", EmptyDict), "rc", None) # "error") =>
              /\ last.raised = NoExc
              /\ last.text = DoneText(last.name, "")
              /\ last.pc = "returned" =>
                    last.result = << [type |-> "text", text |-> last.text] >>

\* C30 witness: list_tools declares mac as required for restart_device,
\* which was invoked with no arguments, sent mac = "" and reported the
\* restart as sent.
C30_Witness ==
    /\ ToolReturned
    /\ last.name = "restart_device"
    /\ "mac" \in list_tools[2].required /\ list_tools[2].name = "restart_device"
    /\ last.arguments = EmptyDict
    /\ Len(wire) = 3
    /\ wire[2].json = [cmd |-> "restart", mac |-> ""]
    /\ last.result = << [type |-> "text",
                         text |-> <<"Restart command sent to device ", "">>] >>

\* the logout requests on the wire
LogoutRequests(w) == {i \in DOMAIN w : w[i].url = logout_request.url}

\* C24: within a scoped session the connection is open when the login
\* request is sent, the login has succeeded before any operation request
\* is sent, every operation request precedes the logout request, the
\* logout request precedes the close of the connection, and nothing is
\* sent after the close.
C24_SessionOrdering ==
    last.op = "call_tool" =>
        /\ Len(wire) >= 1 /\ wire[1] = login_request(last.pre)
        /\ LoginRequests(wire) = {1}
        /\ last.entry # NoExc =>
              Len(wire) = 1 /\ ~self._logged_in
        /\ last.pc = "body" =>
              Len(wire) = 1 /\ self._client = "open" /\ self._logged_in
        /\ last.pc = "exit" =>
              /\ self._client = "open" /\ self._logged_in
              /\ LogoutRequests(wire) = {}
              /\ OperationRequests(wire) \subseteq {2}
        /\ (last.pc = "returned" /\ last.entry = NoExc) =>
              /\ self._client = "closed"
              /\ LogoutRequests(wire) = {Len(wire)}
              /\ \A i \in OperationRequests(wire) : 1 < i /\ i < Len(wire)

\* C24 witness: a scoped session for get_networks sent login, the
\* operation request and logout in this order and was then closed.
C24_Witness ==
    /\ ToolReturned
    /\ last.name = "get_networks"
    /\ Len(wire) = 3
    /\ wire[1] = login_request(last.pre)
    /\ wire[2].url = <<"proxy", "network", "api", "s", "envsite", "rest", "networkconf">>
    /\ wire[3] = logout_request
    /\ self._client = "closed"

\* C25: every connection opened by scope entry is closed by the time the
\* invocation has returned, on every exit path: also when the login inside
\* __aenter__ failed and when the operation failed.
C25_ConnectionAlwaysReleased ==
    ToolReturned => self._client = "closed"

(***************************************************************************)
(* Error kinds, status check and frame of the client (Spec)                *)
(***************************************************************************)
\* C23: every failure of login or of a request on an opened session is
\* raised as UniFiError or one of its subtypes; no other exception type
\* escapes login or _request.
C23_OnlyClientErrorsEscape ==
    ((LoginCarried \/ RequestCarried) /\ last.raised # NoExc) =>
        issubclass(last.raised, "UniFiError")

\* C26: in _request the HTTP status check precedes the inspection of the
\* envelope: a non-2xx answer fails with UniFiError "Request failed: ...",
\* carries neither the envelope's msg nor its data, and its body is not
\* parsed; the body is parsed and the envelope inspected only for 2xx.
C26_StatusBeforeEnvelope ==
    (RequestCarried /\ last.out.exc = NoExc) =>
        /\ ~IsSuccess(last.out) =>
              /\ last.raised = "UniFiError"
              /\ last.msg = <<"Request failed: ", "HTTPStatusError">>
              /\ last.ret = <<>>
        /\ (\/ last.raised = NoExc
            \/ last.raised = "JSONDecodeError"
            \/ last.raised = "UniFiError" /\ last.msg[1] # "Request failed: ") =>
              IsSuccess(last.out)

\* C26 witness: a 500 answer whose body is an error envelope with a msg and
\* a non-empty data list failed as "Request failed".
C26_Witness ==
    /\ RequestCarried
    /\ last.out.status = 500 /\ last.out.is_json
    /\ "meta" \in DOMAIN last.out.doc /\ "data" \in DOMAIN last.out.doc
    /\ last.out.doc.meta = [rc |-> "error", msg |-> "api.err.LoginRequired"]
    /\ last.out.doc.data # <<>>
    /\ last.raised = "UniFiError"
    /\ last.msg[1] = "Request failed: "

\* C27: the authenticated flag becomes true only through a login (direct
\* or by scope entry) whose POST was answered 2xx; a login that fails
\* leaves the flag as it was; only login and logout (direct, or by scope
\* entry and exit) write the flag.
C27_FlagWrittenByLoginOnly ==
    [][ /\ (~self._logged_in /\ self'._logged_in) =>
              last'.op \in {"login", "__aenter__"} /\ IsSuccess(last'.out)
        /\ (last'.op \in {"login", "__aenter__"} /\ last'.raised # NoExc) =>
              self'._logged_in = self._logged_in
        /\ self'._logged_in # self._logged_in =>
              last'.op \in {"login", "__aenter__", "logout", "__aexit__"}
      ]_vars

\* C27 witness: a login on an authenticated session was answered 500 and
\* the session is still authenticated.
C27_Witness ==
    /\ last.op = "login"
    /\ last.pre._logged_in /\ last.pre._client = "open"
    /\ last.out.status = 500
    /\ last.raised = "UniFiError"
    /\ self._logged_in

\* C28: a _request that raises leaves the session as it was (flag,
\* connection, configuration); after it a further _request is still sent,
\* and the scope exit still sends the logout request and closes the
\* connection.
C28_FailedRequestKeepsSession ==
    [][ /\ (last'.op = "_request" /\ last'.raised # NoExc) => self' = self
        /\ (/\ last.op = "_request" /\ last.raised = "UniFiError"
            /\ self._client = "open" /\ self._logged_in) =>
              /\ last'.op = "_request" => last'.nsent = 1
              /\ last'.op = "__aexit__" =>
                    /\ last'.nsent = 1
                    /\ wire'[Len(wire')] = logout_request
                    /\ self'._client = "closed"
      ]_vars

\* C28 witness: on an authenticated session a _request answered with an
\* error envelope raised and the session is what it was before the call.
C28_Witness ==
    /\ last.op = "_request"
    /\ last.raised = "UniFiError"
    /\ last.msg = <<"api.err.LoginRequired">>
    /\ last.pre._client = "open" /\ last.pre._logged_in
    /\ self = last.pre

(***************************************************************************)
(* Properties of concurrent tool invocations (SpecConc)                    *)
(***************************************************************************)
\* C29: interleaved call_tool invocations are isolated: a step of one
\* invocation changes neither the authenticated flag and connection nor
\* the requests of the client of another, and every invocation returns
\* what call_tool returns when run alone with the same answers.
C29_InvocationsIsolated ==
    [][ \A t \in Tasks :
          /\ last'[t] = last[t] =>
                /\ self'[client_of(t)] = self[client_of(t)]
                /\ wire'[client_of(t)] = wire[client_of(t)]
          /\ last'[t].pc = "returned" =>
                /\ last'[t].escaped = NoExc
                /\ last'[t].result =
                      call_tool(last'[t].name, ConcArguments, ConcEnviron,
                                [i \in 1..3 |-> (last'[t].outs
                                     \o <<NoOutcome, NoOutcome>>)[i]]).result
      ]_vars

\* C29 witness: two invocations are in flight at once: the first has had
\* its operation request fail and is about to leave its scope, the second
\* has logged in on its own client; then both clients are open and
\* authenticated with their own requests.
C29_Witness ==
    /\ last[1].pc = "exit" /\ last[1].raised = "ConnectError"
    /\ last[2].pc = "body"
    /\ self[1]._client = "open" /\ self[1]._logged_in /\ Len(wire[1]) = 2
    /\ self[2]._client = "open" /\ self[2]._logged_in /\ Len(wire[2]) = 1
====
